---------------------------- MODULE Spec2Model ----------------------------
(***************************************************************************)
(* A model of the three command-line tools of the repository               *)
(*   P1  computeStatistics.py / compute_statistics.py   (statistics)       *)
(*   P2  convertNumbers.py / convert_numbers.py         (base conversion)  *)
(*   P3  wordCount.py / word_count.py                   (word frequencies) *)
(*                                                                         *)
(* A Python str is a sequence of one-character strings, a list a sequence, *)
(* a dict a function together with the sequence of its keys in insertion   *)
(* order.  The numbers of the statistics tool are the floats with an       *)
(* integral value; a quotient is kept exact, as <<numerator, denominator>>.*)
(* time.perf_counter() differences are the one token Elapsed.              *)
(***************************************************************************)
EXTENDS Integers, Sequences, FiniteSets, TLC

VARIABLES
    script,       \* the script that runs (a harness name in the function specs)
    argv,         \* sys.argv
    file,         \* the input file argv[1] names: status and lines
    results,      \* the results file in the working directory
    pc,           \* position in main
    line_no,      \* the parser's enumerate(file, start=1) position
    values,       \* numbers / ints / words: the parser's first list
    errors,       \* the parser's error list
    console,      \* standard output, line by line
    rc,           \* main's return value (the exit status), -1 while running
    called,       \* the statistics functions main has invoked, in order
    loc,          \* locals of the loop in progress (count_words, rows)
    call,         \* function harness: the arguments
    ret           \* function harness: the returned value

vars == <<script, argv, file, results, pc, line_no, values, errors, console,
          rc, called, loc, call, ret>>

(***************************************************************************)
(* Bounds of the model.                                                    *)
(***************************************************************************)
MaxInt == 300      \* to_base is applied to every n in -MaxInt..MaxInt
MaxBase == 18      \* and to every base in -2..MaxBase
MaxLen == 4        \* longest list handed to median and mode
MaxVal == 2        \* their elements are drawn from -1..MaxVal
MaxLines == 4      \* longest input file of the numeric scripts, in lines
MaxWordLines == 3  \* longest input file of the word-count scripts, in lines

(***************************************************************************)
(* Sequence helpers.                                                       *)
(***************************************************************************)
RECURSIVE Reverse(_)
Reverse(s) == IF s = <<>> THEN <<>> ELSE Append(Reverse(Tail(s)), Head(s))

Range(s) == {s[i] : i \in DOMAIN s}

Last(s) == s[Len(s)]

RECURSIVE SeqsUpTo(_, _)
SeqsUpTo(S, n) ==
    IF n = 0 THEN {<<>>}
    ELSE LET shorter == SeqsUpTo(S, n - 1)
         IN  shorter \cup {Append(s, x) : s \in {t \in shorter : Len(t) = n - 1}, x \in S}

(***************************************************************************)
(* P2: to_base                                                             *)
(***************************************************************************)
HEX_DIGITS == <<"0", "1", "2", "3", "4", "5", "6", "7",
                "8", "9", "A", "B", "C", "D", "E", "F">>

Returned(v) == [exc |-> "none", val |-> v]
Raised(e) == [exc |-> e, val |-> <<>>]

\* the while loop of to_base: remainders collected least significant first
RECURSIVE to_base_digits(_, _, _)
to_base_digits(value, base, digits) ==
    IF value > 0
    THEN to_base_digits(value \div base, base,
                        Append(digits, HEX_DIGITS[(value % base) + 1]))
    ELSE digits

to_base_wrong_guard(n, base) ==
    IF n = 0 THEN Returned(<<"0">>)
    ELSE IF base < 2 \/ base > 16 THEN Raised("ValueError")
    ELSE LET value == IF n < 0 THEN -n ELSE n
             sign == IF n < 0 THEN <<"-">> ELSE <<>>
         IN  Returned(sign \o Reverse(to_base_digits(value, base, <<>>)))

to_base_no_reverse(n, base) ==
    IF base < 2 \/ base > 16 THEN Raised("ValueError")
    ELSE IF n = 0 THEN Returned(<<"0">>)
    ELSE LET value == IF n < 0 THEN -n ELSE n
             sign == IF n < 0 THEN <<"-">> ELSE <<>>
         IN  Returned(sign \o to_base_digits(value, base, <<>>))

to_base(n, base) ==
    IF base < 2 \/ base > 16 THEN Raised("ValueError")
    ELSE IF n = 0 THEN Returned(<<"0">>)
    ELSE LET value == IF n < 0 THEN -n ELSE n
             sign == IF n < 0 THEN <<"-">> ELSE <<>>
         IN  Returned(sign \o Reverse(to_base_digits(value, base, <<>>)))

(***************************************************************************)
(* P1: selection_sort, median, mode                                        *)
(* Python indexes from 0, a sequence from 1: arr[k] is arr[k + 1] here.    *)
(***************************************************************************)
RECURSIVE min_index_greater(_, _, _)
min_index_greater(arr, j, min_idx) ==
    IF j >= Len(arr) THEN min_idx
    ELSE min_index_greater(arr, j + 1,
                           IF arr[j + 1] > arr[min_idx + 1] THEN j ELSE min_idx)

\* for j in range(i + 1, n): if arr[j] < arr[min_idx]: min_idx = j
RECURSIVE min_index(_, _, _)
min_index(arr, j, min_idx) ==
    IF j >= Len(arr) THEN min_idx
    ELSE min_index(arr, j + 1,
                   IF arr[j + 1] < arr[min_idx + 1] THEN j ELSE min_idx)

\* arr[i], arr[min_idx] = arr[min_idx], arr[i]
swap(arr, i, k) == [arr EXCEPT ![i + 1] = arr[k + 1], ![k + 1] = arr[i + 1]]

\* for i in range(n): ...
RECURSIVE sort_pass(_, _)
sort_pass(arr, i) ==
    IF i >= Len(arr) THEN arr
    ELSE sort_pass(swap(arr, i, min_index(arr, i + 1, i)), i + 1)

selection_sort(vs) == sort_pass(vs, 0)

median_unsorted(vs) ==
    LET sorted_vals == vs
        n == Len(sorted_vals)
        mid == n \div 2
    IN  IF n % 2 = 1 THEN Returned(<<sorted_vals[mid + 1], 1>>)
        ELSE IF n = 0 THEN Raised("IndexError")
        ELSE Returned(<<sorted_vals[mid] + sorted_vals[mid + 1], 2>>)

\* the quotient (a + b) / 2.0 is kept as <<a + b, 2>>, an element x as <<x, 1>>;
\* on an empty list sorted_vals[mid - 1] raises IndexError
median(vs) ==
    LET sorted_vals == selection_sort(vs)
        n == Len(sorted_vals)
        mid == n \div 2
    IN  IF n % 2 = 1 THEN Returned(<<sorted_vals[mid + 1], 1>>)
        ELSE IF n = 0 THEN Raised("IndexError")
        ELSE Returned(<<sorted_vals[mid] + sorted_vals[mid + 1], 2>>)

\* for v in values: freq[v] = freq.get(v, 0) + 1
\* a dict is [keys |-> its keys in insertion order, at |-> key -> value]
EmptyDict == [keys |-> <<>>, at |-> <<>>]

dict_get(d, k, default) == IF k \in DOMAIN d.at THEN d.at[k] ELSE default

dict_set(d, k, v) ==
    [keys |-> IF k \in DOMAIN d.at THEN d.keys ELSE Append(d.keys, k),
     at |-> [x \in DOMAIN d.at \cup {k} |-> IF x = k THEN v ELSE d.at[x]]]

RECURSIVE build_freq(_, _)
build_freq(vs, freq) ==
    IF vs = <<>> THEN freq
    ELSE build_freq(Tail(vs), dict_set(freq, Head(vs), dict_get(freq, Head(vs), 0) + 1))

\* best_value is None (the empty sequence) or one value
NoBest == [best_count |-> 0, best_value |-> <<>>]

mode_step_first_wins(best, v, c) ==
    IF c > best.best_count
    THEN [best_count |-> c, best_value |-> <<v>>]
    ELSE best

\* computeStatistics.py: the body of `for v, c in freq.items()`
mode_step(best, v, c) ==
    IF c > best.best_count
    THEN [best_count |-> c, best_value |-> <<v>>]
    ELSE IF c = best.best_count /\ best.best_value # <<>> /\ v < best.best_value[1]
         THEN [best EXCEPT !.best_value = <<v>>]
         ELSE best

\* compute_statistics.py: the same loop body with one merged condition
mode_step_merged(best, v, c) ==
    IF \/ c > best.best_count
       \/ (c = best.best_count /\ best.best_value # <<>> /\ v < best.best_value[1])
    THEN [best_count |-> c, best_value |-> <<v>>]
    ELSE best

mode_step_of(variant, best, v, c) ==
    IF variant = "computeStatistics" THEN mode_step(best, v, c)
    ELSE mode_step_merged(best, v, c)

\* if best_count <= 1: return None / return best_value
mode_result(best) == IF best.best_count <= 1 THEN <<>> ELSE best.best_value

RECURSIVE mode_scan(_, _, _, _)
mode_scan(variant, freq, order, best) ==
    IF order = <<>> THEN best
    ELSE mode_scan(variant, freq, Tail(order),
                   mode_step_of(variant, best, Head(order), freq.at[Head(order)]))

\* mode as main calls it: freq.items() yields the keys in insertion order
mode(variant, vs) ==
    LET freq == build_freq(vs, EmptyDict)
    IN  mode_result(mode_scan(variant, freq, freq.keys, NoBest))

(***************************************************************************)
(* Text: str.strip, str.split, str.lower, float() and int()                *)
(***************************************************************************)
Whitespace == {" ", "\t", "\n"}

RECURSIVE lstrip(_, _)
lstrip(s, chars) ==
    IF s # <<>> /\ Head(s) \in chars THEN lstrip(Tail(s), chars) ELSE s

RECURSIVE rstrip(_, _)
rstrip(s, chars) ==
    IF s # <<>> /\ Last(s) \in chars THEN rstrip(SubSeq(s, 1, Len(s) - 1), chars) ELSE s

\* str.strip()
strip(s) == rstrip(lstrip(s, Whitespace), Whitespace)

\* str.split(): the maximal runs of non-whitespace characters, in order
RECURSIVE split_from(_, _, _)
split_from(s, word, parts) ==
    IF s = <<>> THEN (IF word = <<>> THEN parts ELSE Append(parts, word))
    ELSE IF Head(s) \in Whitespace
         THEN split_from(Tail(s), <<>>, IF word = <<>> THEN parts ELSE Append(parts, word))
         ELSE split_from(Tail(s), Append(word, Head(s)), parts)

split(s) == split_from(s, <<>>, <<>>)

UpperLetters == <<"A", "B", "C", "D", "E", "F", "G", "H", "I", "J", "K", "L", "M",
                  "N", "O", "P", "Q", "R", "S", "T", "U", "V", "W", "X", "Y", "Z">>
LowerLetters == <<"a", "b", "c", "d", "e", "f", "g", "h", "i", "j", "k", "l", "m",
                  "n", "o", "p", "q", "r", "s", "t", "u", "v", "w", "x", "y", "z">>

lower_char(c) ==
    IF c \in Range(UpperLetters)
    THEN LowerLetters[CHOOSE i \in DOMAIN UpperLetters : UpperLetters[i] = c]
    ELSE c

\* str.lower()
lower(s) == [i \in DOMAIN s |-> lower_char(s[i])]

DecimalDigits == <<"0", "1", "2", "3", "4", "5", "6", "7", "8", "9">>

RECURSIVE decimal_value(_, _)
decimal_value(s, acc) ==
    IF s = <<>> THEN acc
    ELSE decimal_value(Tail(s),
             acc * 10 + (CHOOSE d \in 0..9 : DecimalDigits[d + 1] = Head(s)))

\* int(text) on a stripped text of letters, digits, signs and ".": an optional
\* sign and one decimal digit or more, anything else a ValueError
int(text) ==
    LET signed == text # <<>> /\ Head(text) \in {"+", "-"}
        body == IF signed THEN Tail(text) ELSE text
    IN  IF body # <<>> /\ \A i \in DOMAIN body : body[i] \in Range(DecimalDigits)
        THEN Returned(IF signed /\ Head(text) = "-"
                      THEN -decimal_value(body, 0) ELSE decimal_value(body, 0))
        ELSE Raised("ValueError")

\* float(text) on a stripped text of letters other than e, i, n, digits and
\* signs: the same literals, read as floats of integral value
float(text) ==
    LET signed == text # <<>> /\ Head(text) \in {"+", "-"}
        body == IF signed THEN Tail(text) ELSE text
    IN  IF body # <<>> /\ \A i \in DOMAIN body : body[i] \in Range(DecimalDigits)
        THEN Returned(IF signed /\ Head(text) = "-"
                      THEN -decimal_value(body, 0) ELSE decimal_value(body, 0))
        ELSE Raised("ValueError")

(***************************************************************************)
(* P3: normalize_token, count_words, sort_words                            *)
(***************************************************************************)
Punctuation == {".", ",", ";", ":", "!", "?", "\"", "'",
                "(", ")", "[", "]", "{", "}", "<", ">"}

normalize_token(token) ==
    rstrip(lstrip(lower(strip(token)), Punctuation), Punctuation)

\* for p in parts: w = normalize_token(p); if w: words.append(w)
RECURSIVE append_words(_, _)
append_words(words, parts) ==
    IF parts = <<>> THEN words
    ELSE LET w == normalize_token(Head(parts))
         IN  append_words(IF w # <<>> THEN Append(words, w) ELSE words, Tail(parts))

\* one iteration of the loop of count_words, on words[idx]
count_words_step_last_index(c, idx, w) ==
    IF w \notin DOMAIN c.counts.at
    THEN [counts |-> dict_set(c.counts, w, 1),
          first_index |-> dict_set(c.first_index, w, idx)]
    ELSE [counts |-> dict_set(c.counts, w, c.counts.at[w] + 1),
          first_index |-> dict_set(c.first_index, w, idx)]

count_words_step(c, idx, w) ==
    IF w \notin DOMAIN c.counts.at
    THEN [counts |-> dict_set(c.counts, w, 1),
          first_index |-> dict_set(c.first_index, w, idx)]
    ELSE [c EXCEPT !.counts = dict_set(c.counts, w, c.counts.at[w] + 1)]

NoCounts == [counts |-> EmptyDict, first_index |-> EmptyDict]

\* the key of sort_words: (-counts[w], first_index[w])
\* a tie broken by the alphabet (the word's first letter) instead
sort_key_lexical(counts, first_index, w) ==
    <<-counts.at[w], CHOOSE i \in DOMAIN LowerLetters : LowerLetters[i] = w[1]>>

sort_key(counts, first_index, w) == <<-counts.at[w], first_index.at[w]>>

\* Python's order of two such tuples
key_less(a, b) == a[1] < b[1] \/ (a[1] = b[1] /\ a[2] < b[2])

\* list.sort(key=...) is stable: an item goes after the items whose key is
\* not greater than its own
RECURSIVE sorted_insert(_, _, _, _)
sorted_insert(sorted, w, counts, first_index) ==
    IF sorted = <<>> THEN <<w>>
    ELSE IF key_less(sort_key(counts, first_index, w),
                     sort_key(counts, first_index, Head(sorted)))
         THEN <<w>> \o sorted
         ELSE <<Head(sorted)>> \o sorted_insert(Tail(sorted), w, counts, first_index)

RECURSIVE sort_items(_, _, _, _)
sort_items(items, sorted, counts, first_index) ==
    IF items = <<>> THEN sorted
    ELSE sort_items(Tail(items), sorted_insert(sorted, Head(items), counts, first_index),
                    counts, first_index)

sort_words(counts, first_index) == sort_items(counts.keys, <<>>, counts, first_index)

(***************************************************************************)
(* P1: mean, variance_population, stddev_population, format_results        *)
(***************************************************************************)
RECURSIVE total_of(_, _)
total_of(vs, total) == IF vs = <<>> THEN total ELSE total_of(Tail(vs), total + Head(vs))

\* total / len(values): ZeroDivisionError on an empty list
mean(vs) ==
    IF Len(vs) = 0 THEN Raised("ZeroDivisionError")
    ELSE Returned(<<total_of(vs, 0), Len(vs)>>)

\* the sum of (v - mu)^2 over n, with mu = S/n: the sum of (n v - S)^2 over n^3
RECURSIVE squares_of(_, _, _, _)
squares_of(vs, S, n, total) ==
    IF vs = <<>> THEN total
    ELSE squares_of(Tail(vs), S, n, total + (n * Head(vs) - S) * (n * Head(vs) - S))

variance_population(vs) ==
    IF Len(vs) = 0 THEN Raised("ZeroDivisionError")
    ELSE Returned(<<squares_of(vs, total_of(vs, 0), Len(vs), 0), Len(vs) * Len(vs) * Len(vs)>>)

\* variance ** 0.5, kept as the quotient under the root
stddev_population(vs) ==
    IF Len(vs) = 0 THEN Raised("ZeroDivisionError")
    ELSE Returned([root_of |-> variance_population(vs).val])

Line(tag, val) == [tag |-> tag, val |-> val]

Elapsed == "elapsed"

\* the lines of the text format_results returns; a value stands for its
\* rendering ({:.6f}, or N/A for a mode of None)
format_results(variant, vs) ==
    <<Line("Count", Len(vs)),
      Line("Mean", mean(vs).val),
      Line("Median", median(vs).val),
      Line("Mode", mode(variant, vs)),
      Line("Standard Deviation (Population)", stddev_population(vs).val),
      Line("Variance (Population)", variance_population(vs).val),
      Line("Time Elapsed (s)", Elapsed)>>

\* the functions main (or format_results) calls on the numbers, in order
StatisticsCalls ==
    <<"mean", "median", "mode", "variance_population", "stddev_population">>

(***************************************************************************)
(* The scripts and their input.                                            *)
(***************************************************************************)
\* P2/source/convert_numbers.py holds the statistics program (its docstring
\* names compute_statistics.py): parse_numbers, the statistics, and a
\* format_results that computes them itself
StatsScripts == {"computeStatistics", "compute_statistics", "convert_numbers"}
ConvertScripts == {"convertNumbers"}
WordScripts == {"wordCount", "word_count"}
Scripts == StatsScripts \cup ConvertScripts \cup WordScripts

\* the parsers with an `except OSError` clause
CatchesOSError == {"computeStatistics", "convertNumbers", "wordCount", "word_count"}

\* the variant of mode a statistics script holds
ModeVariant(s) == IF s = "computeStatistics" THEN "computeStatistics" ELSE "compute_statistics"

ScriptPath == <<"s">>
InputPath == <<"d", "/", "t", "c">>
ArgLists == {<<ScriptPath>>, <<ScriptPath, InputPath>>, <<ScriptPath, InputPath, InputPath>>}

\* the lines `for raw in file` yields
NumberLines == {<<"\n">>,
                <<"1", "0", "\n">>,
                <<"2", "5", "5", "\n">>,
                <<"-", "1", "0", "\n">>,
                <<"b", "a", "d", "\n">>}
WordLines == {<<"\n">>,
              <<"A", " ", "a", ",", " ", "b", "!", "\n">>,
              <<"B", " ", "b", ".", "\n">>,
              <<"!", "?", "\n">>,
              <<"b", " ", "a", "\n">>}

Files(s) ==
    {[status |-> st, lines |-> <<>>] : st \in {"missing", "unreadable"}}
    \cup {[status |-> "ok", lines |-> ls] :
             ls \in IF s \in WordScripts THEN SeqsUpTo(WordLines, MaxWordLines)
                    ELSE SeqsUpTo(NumberLines, MaxLines)}

NoFile == [exists |-> FALSE, text |-> <<>>]
OldFile == [exists |-> TRUE, text |-> <<Line("old", "old")>>]

\* file_path.split("/")[-1]
RECURSIVE base_name(_, _)
base_name(path, name) ==
    IF path = <<>> THEN name
    ELSE base_name(Tail(path), IF Head(path) = "/" THEN <<>> ELSE Append(name, Head(path)))

Error(kind, line, text) == [kind |-> kind, line |-> line, text |-> text]

(***************************************************************************)
(* The parsers: the body of `for line_no, raw in enumerate(file, start=1)`.*)
(***************************************************************************)
parse_numbers_line(n, raw, vs, errs) ==
    LET text == strip(raw)
    IN  IF text = <<>>
        THEN [values |-> vs, errors |-> Append(errs, Error("empty line", n, text))]
        ELSE IF float(text).exc = "none"
             THEN [values |-> Append(vs, float(text).val), errors |-> errs]
             ELSE [values |-> vs, errors |-> Append(errs, Error("invalid number", n, text))]

parse_integers_line(n, raw, vs, errs) ==
    LET text == strip(raw)
    IN  IF text = <<>>
        THEN [values |-> vs, errors |-> Append(errs, Error("empty line", n, text))]
        ELSE IF int(text).exc = "none"
             THEN [values |-> Append(vs, int(text).val), errors |-> errs]
             ELSE [values |-> vs, errors |-> Append(errs, Error("invalid integer", n, text))]

parse_words_line(n, raw, vs, errs) ==
    LET text == strip(raw)
    IN  IF text = <<>>
        THEN [values |-> vs, errors |-> errs]
        ELSE [values |-> append_words(vs, split(text)), errors |-> errs]

parse_line(s, n, raw, vs, errs) ==
    IF s \in StatsScripts THEN parse_numbers_line(n, raw, vs, errs)
    ELSE IF s \in ConvertScripts THEN parse_integers_line(n, raw, vs, errs)
    ELSE parse_words_line(n, raw, vs, errs)

(***************************************************************************)
(* The function harness: a call with arguments drawn from bounded sets.    *)
(***************************************************************************)
ToolIdle ==
    /\ argv = <<>>
    /\ file = [status |-> "none", lines |-> <<>>]
    /\ results = [exists |-> FALSE, text |-> <<>>]
    /\ line_no = 0
    /\ values = <<>>
    /\ errors = <<>>
    /\ console = <<>>
    /\ rc = -1
    /\ called = <<>>
    /\ loc = <<>>

NoRet == [exc |-> "pending", val |-> <<>>]

InitToBase ==
    /\ script = "to_base"
    /\ pc = "call"
    /\ call \in [n : (-MaxInt)..MaxInt, base : (-2)..MaxBase]
    /\ ret = NoRet
    /\ ToolIdle

CallToBase ==
    /\ script = "to_base"
    /\ pc = "call"
    /\ ret' = to_base(call.n, call.base)
    /\ pc' = "returned"
    /\ UNCHANGED <<script, argv, file, results, line_no, values, errors,
                   console, rc, called, loc, call>>

NextToBase == CallToBase

SpecToBase == InitToBase /\ [][NextToBase]_vars

(***************************************************************************)
(* The statistics functions, called on every list of at most MaxLen values *)
(* of -1..MaxVal.  The loop of mode over freq.items() is taken one entry   *)
(* at a time, the entries in any order.                                    *)
(***************************************************************************)
Variants == {"computeStatistics", "compute_statistics"}

InitStats ==
    /\ script \in {"median", "mode", "selection_sort"}
    /\ pc = "call"
    /\ call \in [variant : Variants, values : SeqsUpTo((-1)..MaxVal, MaxLen)]
    /\ ret = NoRet
    /\ ToolIdle

CallMedian ==
    /\ script = "median"
    /\ pc = "call"
    /\ ret' = median(call.values)
    /\ pc' = "returned"
    /\ UNCHANGED <<script, argv, file, results, line_no, values, errors,
                   console, rc, called, loc, call>>

\* mode up to its second loop: freq is built, nothing scanned yet
CallMode ==
    /\ script = "mode"
    /\ pc = "call"
    /\ LET freq == build_freq(call.values, EmptyDict)
       IN  loc' = [freq |-> freq, todo |-> Range(freq.keys), best |-> NoBest]
    /\ pc' = "scan"
    /\ UNCHANGED <<script, argv, file, results, line_no, values, errors,
                   console, rc, called, call, ret>>

\* one iteration of `for v, c in freq.items()`, on any entry not yet scanned
ModeScanStep ==
    /\ script = "mode"
    /\ pc = "scan"
    /\ \E v \in loc.todo :
          loc' = [loc EXCEPT !.todo = @ \ {v},
                             !.best = mode_step_of(call.variant, @, v, loc.freq.at[v])]
    /\ UNCHANGED <<script, argv, file, results, pc, line_no, values, errors,
                   console, rc, called, call, ret>>

ModeReturn ==
    /\ script = "mode"
    /\ pc = "scan"
    /\ loc.todo = {}
    /\ ret' = Returned(mode_result(loc.best))
    /\ pc' = "returned"
    /\ UNCHANGED <<script, argv, file, results, line_no, values, errors,
                   console, rc, called, loc, call>>

\* arr = values[:] makes arr a list of its own: the caller's list is kept in
\* loc.values and the working copy in loc.arr; i counts the outer iterations done
CallSelectionSort ==
    /\ script = "selection_sort"
    /\ pc = "call"
    /\ loc' = [values |-> call.values, arr |-> call.values, i |-> 0]
    /\ pc' = "sort"
    /\ UNCHANGED <<script, argv, file, results, line_no, values, errors,
                   console, rc, called, call, ret>>

\* one iteration of `for i in range(n)`: the inner loop, then the swap on arr
SortOuterStep ==
    /\ script = "selection_sort"
    /\ pc = "sort"
    /\ loc.i < Len(loc.arr)
    /\ loc' = [loc EXCEPT !.arr = swap(@, loc.i, min_index(@, loc.i + 1, loc.i)),
                          !.i = @ + 1]
    /\ UNCHANGED <<script, argv, file, results, pc, line_no, values, errors,
                   console, rc, called, call, ret>>

SortReturn ==
    /\ script = "selection_sort"
    /\ pc = "sort"
    /\ loc.i >= Len(loc.arr)
    /\ ret' = Returned(loc.arr)
    /\ pc' = "returned"
    /\ UNCHANGED <<script, argv, file, results, line_no, values, errors,
                   console, rc, called, loc, call>>

NextStats ==
    \/ CallMedian
    \/ CallMode
    \/ ModeScanStep
    \/ ModeReturn
    \/ CallSelectionSort
    \/ SortOuterStep
    \/ SortReturn

SpecStats == InitStats /\ [][NextStats]_vars

(***************************************************************************)
(* The tools: one run of main(sys.argv) of one script.                     *)
(***************************************************************************)
NoLocals == [lines |-> <<>>, item_no |-> 1, idx |-> 0, c |-> NoCounts, ordered |-> <<>>]

Init ==
    /\ script \in Scripts
    /\ argv \in ArgLists
    /\ file \in Files(script)
    /\ results \in {NoFile, OldFile}
    /\ pc = "main"
    /\ line_no = 0
    /\ values = <<>>
    /\ errors = <<>>
    /\ console = <<>>
    /\ rc = -1
    /\ called = <<>>
    /\ loc = NoLocals
    /\ call = <<>>
    /\ ret = NoRet

\* if len(argv) != 2: print usage; return 2
MainUsage ==
    /\ pc = "main"
    /\ Len(argv) # 2
    /\ console' = Append(console, Line("Usage", script))
    /\ rc' = 2
    /\ pc' = "exit"
    /\ UNCHANGED <<script, argv, file, results, line_no, values, errors,
                   called, loc, call, ret>>

MainStartAnyArgs ==
    /\ pc = "main"
    /\ Len(argv) >= 2
    /\ pc' = "open"
    /\ UNCHANGED <<script, argv, file, results, line_no, values, errors,
                   console, rc, called, loc, call, ret>>

\* file_path = argv[1]; start = time.perf_counter(); the parser is called
MainStart ==
    /\ pc = "main"
    /\ Len(argv) = 2
    /\ pc' = "open"
    /\ UNCHANGED <<script, argv, file, results, line_no, values, errors,
                   console, rc, called, loc, call, ret>>

\* open(file_path): the file opens
ParseOpen ==
    /\ pc = "open"
    /\ file.status = "ok"
    /\ pc' = "lines"
    /\ UNCHANGED <<script, argv, file, results, line_no, values, errors,
                   console, rc, called, loc, call, ret>>

\* except FileNotFoundError: one entry, the parser returns
ParseFileNotFound ==
    /\ pc = "open"
    /\ file.status = "missing"
    /\ errors' = Append(errors, Error("File not found", 0, argv[2]))
    /\ pc' = "report"
    /\ UNCHANGED <<script, argv, file, results, line_no, values,
                   console, rc, called, loc, call, ret>>

\* except OSError: one entry, the parser returns
ParseOSError ==
    /\ pc = "open"
    /\ file.status = "unreadable"
    /\ script \in CatchesOSError
    /\ errors' = Append(errors, Error("Could not read file", 0, argv[2]))
    /\ pc' = "report"
    /\ UNCHANGED <<script, argv, file, results, line_no, values,
                   console, rc, called, loc, call, ret>>

\* no `except OSError`: the exception leaves parse_numbers and main, and
\* the interpreter ends with a traceback and exit status 1
ParseOSErrorUncaught ==
    /\ pc = "open"
    /\ file.status = "unreadable"
    /\ script \notin CatchesOSError
    /\ rc' = 1
    /\ pc' = "raised"
    /\ UNCHANGED <<script, argv, file, results, line_no, values, errors,
                   console, called, loc, call, ret>>

\* one iteration of the parser's loop over the lines
ParseLine ==
    /\ pc = "lines"
    /\ line_no < Len(file.lines)
    /\ LET r == parse_line(script, line_no + 1, file.lines[line_no + 1], values, errors)
       IN  /\ values' = r.values
           /\ errors' = r.errors
    /\ line_no' = line_no + 1
    /\ UNCHANGED <<script, argv, file, results, pc, console, rc, called, loc, call, ret>>

\* the file is exhausted: return values, errors
ParseReturn ==
    /\ pc = "lines"
    /\ line_no = Len(file.lines)
    /\ pc' = "report"
    /\ UNCHANGED <<script, argv, file, results, line_no, values, errors,
                   console, rc, called, loc, call, ret>>

PrintErrorsUnprefixed ==
    /\ pc = "report"
    /\ console' = console \o [i \in DOMAIN errors |-> Line("", errors[i])]
    /\ pc' = IF script \in StatsScripts THEN "stats"
             ELSE IF script \in ConvertScripts THEN "rows" ELSE "words"
    /\ loc' = [loc EXCEPT !.lines =
                  IF script \in StatsScripts THEN <<>>
                  ELSE IF script \in ConvertScripts THEN <<Line("ITEM", "DEC BIN HEX")>>
                  ELSE <<Line("Row Labels", base_name(argv[2], <<>>))>>]
    /\ UNCHANGED <<script, argv, file, results, line_no, values, errors,
                   rc, called, call, ret>>

\* for err in errors: print(f"ERROR: {err}"), and the header of the tools
\* that collect their output lines
PrintErrors ==
    /\ pc = "report"
    /\ console' = console \o [i \in DOMAIN errors |-> Line("ERROR", errors[i])]
    /\ pc' = IF script \in StatsScripts THEN "stats"
             ELSE IF script \in ConvertScripts THEN "rows" ELSE "words"
    /\ loc' = [loc EXCEPT !.lines =
                  IF script \in StatsScripts THEN <<>>
                  ELSE IF script \in ConvertScripts THEN <<Line("ITEM", "DEC BIN HEX")>>
                  ELSE <<Line("Row Labels", base_name(argv[2], <<>>))>>]
    /\ UNCHANGED <<script, argv, file, results, line_no, values, errors,
                   rc, called, call, ret>>

\* computeStatistics.py, if not numbers: the message is printed and written
StatsNoDataMessage ==
    /\ pc = "stats"
    /\ values = <<>>
    /\ script = "computeStatistics"
    /\ LET msg == <<Line("No valid numbers to process.", ""),
                    Line("Time Elapsed (s)", Elapsed)>>
       IN  /\ console' = console \o msg
           /\ results' = [exists |-> TRUE, text |-> msg]
    /\ rc' = 1
    /\ pc' = "exit"
    /\ UNCHANGED <<script, argv, file, line_no, values, errors, called, loc, call, ret>>

\* compute_statistics.py and convert_numbers.py, if not numbers: return 1
StatsNoData ==
    /\ pc = "stats"
    /\ values = <<>>
    /\ script # "computeStatistics"
    /\ rc' = 1
    /\ pc' = "exit"
    /\ UNCHANGED <<script, argv, file, results, line_no, values, errors,
                   console, called, loc, call, ret>>

\* the statistics are computed, printed and written
StatsResults ==
    /\ pc = "stats"
    /\ values # <<>>
    /\ called' = StatisticsCalls
    /\ LET out == format_results(ModeVariant(script), values)
       IN  /\ console' = console \o out
           /\ results' = [exists |-> TRUE, text |-> out]
    /\ rc' = 0
    /\ pc' = "exit"
    /\ UNCHANGED <<script, argv, file, line_no, values, errors, loc, call, ret>>

convert_line_swapped(item_no, n) ==
    Line("row", [item |-> item_no, dec |-> n,
                 bin |-> to_base(n, 16).val, hex |-> to_base(n, 2).val])

\* f"{item_no}\t{n}\t{b2}\t{b16}"
convert_line(item_no, n) ==
    Line("row", [item |-> item_no, dec |-> n,
                 bin |-> to_base(n, 2).val, hex |-> to_base(n, 16).val])

\* one iteration of `for n in numbers`
ConvertRow ==
    /\ pc = "rows"
    /\ loc.item_no <= Len(values)
    /\ loc' = [loc EXCEPT !.lines = Append(@, convert_line(loc.item_no, values[loc.item_no])),
                          !.item_no = @ + 1]
    /\ UNCHANGED <<script, argv, file, results, pc, line_no, values, errors,
                   console, rc, called, call, ret>>

\* the elapsed time is appended, the lines are printed and written
ConvertEmit ==
    /\ pc = "rows"
    /\ loc.item_no > Len(values)
    /\ LET lines == Append(loc.lines, Line("Time Elapsed (s):", Elapsed))
       IN  /\ loc' = [loc EXCEPT !.lines = lines]
           /\ console' = console \o lines
           /\ results' = [exists |-> TRUE, text |-> lines]
    /\ rc' = 0
    /\ pc' = "exit"
    /\ UNCHANGED <<script, argv, file, line_no, values, errors, called, call, ret>>

\* count_words: one iteration of `for idx, w in enumerate(words)`
CountWordsStep ==
    /\ pc = "words"
    /\ values # <<>>
    /\ loc.idx < Len(values)
    /\ loc' = [loc EXCEPT !.c = count_words_step(@, loc.idx, values[loc.idx + 1]),
                          !.idx = @ + 1]
    /\ UNCHANGED <<script, argv, file, results, pc, line_no, values, errors,
                   console, rc, called, call, ret>>

word_lines(ordered, counts) ==
    [i \in DOMAIN ordered |-> Line("word", <<ordered[i], counts.at[ordered[i]]>>)]

\* count_words returns; ordered = sort_words(...); a line for each word
WordsRows ==
    /\ pc = "words"
    /\ values # <<>>
    /\ loc.idx = Len(values)
    /\ LET ordered == sort_words(loc.c.counts, loc.c.first_index)
       IN  loc' = [loc EXCEPT !.ordered = ordered,
                              !.lines = @ \o word_lines(ordered, loc.c.counts)]
    /\ pc' = "emit"
    /\ UNCHANGED <<script, argv, file, results, line_no, values, errors,
                   console, rc, called, call, ret>>

\* else: lines.append("(no words found)\t0")
WordsNone ==
    /\ pc = "words"
    /\ values = <<>>
    /\ loc' = [loc EXCEPT !.lines = Append(@, Line("(no words found)", 0))]
    /\ pc' = "emit"
    /\ UNCHANGED <<script, argv, file, results, line_no, values, errors,
                   console, rc, called, call, ret>>

\* the elapsed time is appended, the lines are printed and written
WordsEmit ==
    /\ pc = "emit"
    /\ LET lines == Append(loc.lines, Line("Time Elapsed (s):", Elapsed))
       IN  /\ loc' = [loc EXCEPT !.lines = lines]
           /\ console' = console \o lines
           /\ results' = [exists |-> TRUE, text |-> lines]
    /\ rc' = 0
    /\ pc' = "exit"
    /\ UNCHANGED <<script, argv, file, line_no, values, errors, called, call, ret>>

Next ==
    \/ MainUsage \/ MainStart
    \/ ParseOpen \/ ParseFileNotFound \/ ParseOSError \/ ParseOSErrorUncaught
    \/ ParseLine \/ ParseReturn \/ PrintErrors
    \/ StatsNoDataMessage \/ StatsNoData \/ StatsResults
    \/ ConvertRow \/ ConvertEmit
    \/ CountWordsStep \/ WordsRows \/ WordsNone \/ WordsEmit

Spec == Init /\ [][Next]_vars

(***************************************************************************)
(* Claims about to_base (SpecToBase).                                      *)
(***************************************************************************)
\* the value of a digit character: 0-9, then A-F
DigitValue(c) ==
    CASE c = "0" -> 0 [] c = "1" -> 1 [] c = "2" -> 2 [] c = "3" -> 3
      [] c = "4" -> 4 [] c = "5" -> 5 [] c = "6" -> 6 [] c = "7" -> 7
      [] c = "8" -> 8 [] c = "9" -> 9 [] c = "A" -> 10 [] c = "B" -> 11
      [] c = "C" -> 12 [] c = "D" -> 13 [] c = "E" -> 14 [] c = "F" -> 15
      [] OTHER -> 99

\* a digit string of the base: one digit or more, each below the base
IsDigitString(s, base) ==
    /\ s # <<>>
    /\ \A i \in DOMAIN s : DigitValue(s[i]) < base

RECURSIVE ParseDigits(_, _, _)
ParseDigits(s, base, acc) ==
    IF s = <<>> THEN acc
    ELSE ParseDigits(Tail(s), base, acc * base + DigitValue(Head(s)))

\* a leading "-" negates
ParseInBase(s, base) ==
    IF s # <<>> /\ Head(s) = "-" THEN -ParseDigits(Tail(s), base, 0)
    ELSE ParseDigits(s, base, 0)

IsNumeral(s, base) ==
    IF s # <<>> /\ Head(s) = "-" THEN IsDigitString(Tail(s), base)
    ELSE IsDigitString(s, base)

\* C1: for every integer n and for base 2 and base 16, the string to_base
\* returns is a numeral of that base, and parsing it back (a leading "-"
\* negating, digits 0-9 then A-F) gives n again.
C1_RoundTrip ==
    (script = "to_base" /\ pc = "returned" /\ call.base \in {2, 16})
        => /\ ret.exc = "none"
           /\ IsNumeral(ret.val, call.base)
           /\ ParseInBase(ret.val, call.base) = call.n

C1_Witness ==
    /\ script = "to_base" /\ pc = "returned"
    /\ call.n = -26 /\ call.base = 16
    /\ ret = Returned(<<"-", "1", "A">>)

\* C2: for a base in 2..16, to_base(0, base) is "0" and to_base(-n, base) is
\* "-" followed by to_base(n, base) for n > 0; for a base outside 2..16
\* to_base raises its error for every n, n = 0 included, and returns nothing.
C2_Domain ==
    (script = "to_base" /\ pc = "returned")
        => /\ (call.base \in 2..16 /\ call.n = 0) => ret = Returned(<<"0">>)
           /\ (call.base \in 2..16 /\ call.n < 0)
                 => /\ to_base(-call.n, call.base).exc = "none"
                    /\ ret = Returned(<<"-">> \o to_base(-call.n, call.base).val)
           /\ (call.base \notin 2..16) => ret = Raised("ValueError")

C2_Witness ==
    /\ script = "to_base" /\ pc = "returned"
    /\ call.n = 0 /\ call.base = 17
    /\ ret.exc = "ValueError"

(***************************************************************************)
(* Claims about median and mode (SpecStats).                               *)
(***************************************************************************)
Occurrences(vs, v) == Cardinality({i \in DOMAIN vs : vs[i] = v})

\* the k-th element (k = 1 the smallest) of the ascending ordering of vs
KthSmallest(vs, k) ==
    CHOOSE x \in Range(vs) :
        /\ Cardinality({i \in DOMAIN vs : vs[i] < x}) < k
        /\ k <= Cardinality({i \in DOMAIN vs : vs[i] <= x})

MostFrequent(vs) ==
    {v \in Range(vs) : \A w \in Range(vs) : Occurrences(vs, w) <= Occurrences(vs, v)}

Smallest(S) == CHOOSE x \in S : \A y \in S : x <= y

\* C3: mode returns None when no value occurs more than once, and otherwise
\* the smallest of the values with the highest occurrence count, whatever
\* the order in which the entries of the frequency table were scanned.
C3_Mode ==
    (script = "mode" /\ pc = "returned")
        => ret = Returned(IF \A v \in Range(call.values) : Occurrences(call.values, v) <= 1
                          THEN <<>>
                          ELSE <<Smallest(MostFrequent(call.values))>>)

\* a tie between 2 and 1, scanned largest first
C3_Witness ==
    /\ script = "mode" /\ pc = "returned"
    /\ call.values = <<2, 2, 1, 1>>
    /\ ret = Returned(<<1>>)

\* C4: on a non-empty list in any order, median returns the middle element
\* of the ascending ordering when the length is odd, and the arithmetic mean
\* of its two central elements when the length is even.
C4_Median ==
    (script = "median" /\ pc = "returned" /\ call.values # <<>>)
        => LET n == Len(call.values)
           IN  /\ ret.exc = "none"
               /\ n % 2 = 1 => ret.val = <<KthSmallest(call.values, (n + 1) \div 2), 1>>
               /\ n % 2 = 0 =>
                     ret.val = <<KthSmallest(call.values, n \div 2)
                                   + KthSmallest(call.values, n \div 2 + 1), 2>>

C4_Witness ==
    /\ script = "median" /\ pc = "returned"
    /\ call.values = <<2, -1, 1, 0>>
    /\ ret = Returned(<<1, 2>>)

(***************************************************************************)
(* Claims about the word-count scripts (Spec).                             *)
(***************************************************************************)
\* the zero-based position of the first occurrence of w in vs
FirstIndex(vs, w) ==
    (CHOOSE i \in DOMAIN vs : vs[i] = w /\ \A j \in 1..(i - 1) : vs[j] # w) - 1

IsWordLine(l) == l.tag = "word"

\* C5: sort_words returns each distinct word exactly once, by descending
\* count and, among words of equal count, by ascending index of the first
\* occurrence (so that nothing is left for the order of the alphabet to
\* decide), and the tool's rows, on the console and in the results file,
\* are the words in this order, each with its count.
C5_SortWords ==
    (script \in WordScripts /\ pc \in {"emit", "exit"} /\ values # <<>>)
        => LET o == loc.ordered
               rows == [i \in DOMAIN o |-> Line("word", <<o[i], Occurrences(values, o[i])>>)]
           IN  /\ Range(o) = Range(values)
               /\ Len(o) = Cardinality(Range(values))
               /\ \A i, j \in DOMAIN o :
                     i < j => \/ Occurrences(values, o[i]) > Occurrences(values, o[j])
                              \/ /\ Occurrences(values, o[i]) = Occurrences(values, o[j])
                                 /\ FirstIndex(values, o[i]) < FirstIndex(values, o[j])
               /\ SelectSeq(loc.lines, IsWordLine) = rows
               /\ pc = "exit" => /\ SelectSeq(console, IsWordLine) = rows
                                 /\ SelectSeq(results.text, IsWordLine) = rows

\* "b a": a tie, the word first seen comes first although it is the later
\* one of the alphabet
C5_Witness ==
    /\ script \in WordScripts /\ pc = "exit"
    /\ file.lines = << <<"b", " ", "a", "\n">> >>
    /\ values = <<(<<"b">>), (<<"a">>)>>
    /\ loc.ordered = <<(<<"b">>), (<<"a">>)>>
    /\ console[2] = Line("word", <<(<<"b">>), 1>>)
    /\ console[3] = Line("word", <<(<<"a">>), 1>>)

RECURSIVE SumOfCounts(_, _)
SumOfCounts(keys, at) ==
    IF keys = <<>> THEN 0 ELSE at[Head(keys)] + SumOfCounts(Tail(keys), at)

\* C6: after every step of the pass of count_words over the words, the keys
\* of counts are the distinct words scanned so far, counts[w] is the number
\* of occurrences of w among them, first_index[w] the zero-based position
\* of its first occurrence, and the counts sum to the number of words
\* scanned; the pass ends having scanned them all.
C6_CountWords ==
    (script \in WordScripts /\ pc \in {"words", "emit", "exit"} /\ values # <<>>)
        => LET scanned == SubSeq(values, 1, loc.idx)
               counts == loc.c.counts
               first_index == loc.c.first_index
           IN  /\ DOMAIN counts.at = Range(scanned)
               /\ DOMAIN first_index.at = Range(scanned)
               /\ Range(counts.keys) = Range(scanned)
               /\ Len(counts.keys) = Cardinality(Range(scanned))
               /\ \A w \in Range(scanned) :
                     /\ counts.at[w] = Occurrences(scanned, w)
                     /\ first_index.at[w] = FirstIndex(scanned, w)
               /\ SumOfCounts(counts.keys, counts.at) = loc.idx
               /\ pc \in {"emit", "exit"} => loc.idx = Len(values)

\* "Hola hola, mundo!" / "Mundo mundo." with a for hola and b for mundo
C6_Witness ==
    /\ script \in WordScripts /\ pc = "exit"
    /\ file.lines = << <<"A", " ", "a", ",", " ", "b", "!", "\n">>, <<"B", " ", "b", ".", "\n">> >>
    /\ values = <<(<<"a">>), (<<"a">>), (<<"b">>), (<<"b">>), (<<"b">>)>>
    /\ loc.c.counts.at[<<"a">>] = 2 /\ loc.c.counts.at[<<"b">>] = 3
    /\ loc.c.first_index.at[<<"a">>] = 0 /\ loc.c.first_index.at[<<"b">>] = 2
    /\ loc.ordered = <<(<<"b">>), (<<"a">>)>>

(***************************************************************************)
(* Claims about the conversion script convertNumbers.py (Spec).            *)
(***************************************************************************)
IsRow(l) == l.tag = "row"
IsError(l) == l.tag = "ERROR"

\* the integers of the lines int() accepts, in input order
RECURSIVE ValidInts(_)
ValidInts(lines) ==
    IF lines = <<>> THEN <<>>
    ELSE LET r == int(strip(Head(lines)))
         IN  (IF r.exc = "none" THEN <<r.val>> ELSE <<>>) \o ValidInts(Tail(lines))

\* C7: after the header row the conversion tool emits one row per valid
\* integer line, in input order, numbered 1, 2, ... without gaps; row k
\* holds the k-th valid integer n, to_base(n, 2) and to_base(n, 16); each
\* invalid line gives one ERROR line and no row.
C7_Rows ==
    (script \in ConvertScripts /\ pc = "exit" /\ Len(argv) = 2)
        => LET ints == ValidInts(file.lines)
               rows == [k \in DOMAIN ints |->
                          Line("row", [item |-> k, dec |-> ints[k],
                                       bin |-> to_base(ints[k], 2).val,
                                       hex |-> to_base(ints[k], 16).val])]
               errs == SelectSeq(console, IsError)
               emitted == <<Line("ITEM", "DEC BIN HEX")>> \o rows
                             \o <<Line("Time Elapsed (s):", Elapsed)>>
           IN  /\ console = errs \o emitted
               /\ results = [exists |-> TRUE, text |-> emitted]
               /\ file.status = "ok" =>
                     \A i \in DOMAIN file.lines :
                        Cardinality({e \in DOMAIN errs : errs[e].val.line = i})
                           = IF int(strip(file.lines[i])).exc = "none" THEN 0 ELSE 1

\* the lines 10, 255, -10, bad
C7_Witness ==
    /\ script = "convertNumbers" /\ pc = "exit"
    /\ file.lines = << <<"1", "0", "\n">>, <<"2", "5", "5", "\n">>,
                       <<"-", "1", "0", "\n">>, <<"b", "a", "d", "\n">> >>
    /\ Len(console) = 6
    /\ console[1] = Line("ERROR", Error("invalid integer", 4, <<"b", "a", "d">>))
    /\ console[3].val = [item |-> 1, dec |-> 10, bin |-> <<"1", "0", "1", "0">>, hex |-> <<"A">>]
    /\ console[4].val = [item |-> 2, dec |-> 255,
                         bin |-> <<"1", "1", "1", "1", "1", "1", "1", "1">>, hex |-> <<"F", "F">>]
    /\ console[5].val = [item |-> 3, dec |-> -10,
                         bin |-> <<"-", "1", "0", "1", "0">>, hex |-> <<"-", "A">>]

(***************************************************************************)
(* Claims about every script (Spec).                                       *)
(***************************************************************************)
\* whether the line adds a value to the list its parser returns
Contributes(s, raw) ==
    IF s \in StatsScripts THEN float(strip(raw)).exc = "none"
    ELSE IF s \in ConvertScripts THEN int(strip(raw)).exc = "none"
    ELSE \E i \in DOMAIN split(strip(raw)) : normalize_token(split(strip(raw))[i]) # <<>>

\* C8: in each parser, on a readable file, every line read that adds no
\* value to the list has exactly one entry of the error list and every
\* other line has none, the parser returns only after the last line, and in
\* the numeric and integer parsers the values and the error entries are as
\* many as the lines read.
C8_OneEntryPerSkippedLine ==
    (pc \in {"lines", "report"} /\ file.status = "ok")
        => /\ \A i \in 1..line_no :
                 Cardinality({e \in DOMAIN errors : errors[e].line = i})
                    = IF Contributes(script, file.lines[i]) THEN 0 ELSE 1
           /\ pc = "report" => line_no = Len(file.lines)
           /\ script \notin WordScripts => Len(values) + Len(errors) = line_no

\* the same of the numeric and the integer parser alone
C8_NumericParsers == script \notin WordScripts => C8_OneEntryPerSkippedLine

\* C9: a run with one argument whose dataset is empty ends with exit code 1
\* and has called no statistics function; exit code 0 is returned only with
\* one valid datum or more.
C9_EmptyDatasetExit ==
    (pc = "exit" /\ Len(argv) = 2)
        => /\ values = <<>> => (rc = 1 /\ called = <<>>)
           /\ rc = 0 => values # <<>>

\* the same of the statistics scripts alone
C9_StatsScripts == script \in StatsScripts => C9_EmptyDatasetExit

\* C10: with an argument count other than one input path, main prints the
\* usage message and nothing else and returns 2; no line is parsed and the
\* results file is neither created nor changed.
C10_Usage ==
    [][Len(argv) # 2 =>
          /\ results' = results
          /\ line_no' = 0 /\ values' = <<>> /\ errors' = <<>>
          /\ pc' \in {"main", "exit"}
          /\ pc' = "main" => (console' = <<>> /\ rc' = -1)
          /\ pc' = "exit" => (console' = <<Line("Usage", script)>> /\ rc' = 2)]_vars

C10_Witness ==
    /\ pc = "exit" /\ Len(argv) = 3 /\ rc = 2
    /\ file.status = "ok" /\ Len(file.lines) = 2
    /\ results = OldFile
    /\ console = <<Line("Usage", script)>>

\* C11: in every run each entry of the error list is printed as one line
\* with the prefix ERROR, in the order of the list; these lines come before
\* every other line of the run's output; no such line is ever in the results
\* file; and a run whose input has valid and invalid lines prints both the
\* ERROR lines and the results.
C11_ErrorsFirst ==
    /\ \A i, j \in DOMAIN console :
          (i < j /\ console[j].tag = "ERROR") => console[i].tag = "ERROR"
    /\ \A i \in DOMAIN results.text : results.text[i].tag # "ERROR"
    /\ pc \in {"stats", "rows", "words", "emit", "exit"} /\ Len(argv) = 2
          => SelectSeq(console, IsError) = [i \in DOMAIN errors |-> Line("ERROR", errors[i])]
    /\ pc \in {"main", "open", "lines", "report", "raised"} => console = <<>>
    /\ (pc = "exit" /\ values # <<>> /\ errors # <<>>)
          => /\ rc = 0
             /\ Len(console) > Len(errors)
             /\ console[1].tag = "ERROR"
             /\ console[Len(errors) + 1].tag
                   = IF script \in StatsScripts THEN "Count"
                     ELSE IF script \in ConvertScripts THEN "ITEM" ELSE "Row Labels"
             /\ results.text = SubSeq(console, Len(errors) + 1, Len(console))

\* the lines 10, bad, a blank line, 10 given to computeStatistics.py
C11_Witness ==
    /\ script = "computeStatistics" /\ pc = "exit" /\ rc = 0
    /\ file.lines = << <<"1", "0", "\n">>, <<"b", "a", "d", "\n">>,
                       <<"\n">>, <<"1", "0", "\n">> >>
    /\ Len(console) = 9
    /\ console[1] = Line("ERROR", Error("invalid number", 2, <<"b", "a", "d">>))
    /\ console[2] = Line("ERROR", Error("empty line", 3, <<>>))
    /\ console[3] = Line("Count", 2)
    /\ console[6] = Line("Mode", <<10>>)
    /\ Len(results.text) = 7

IsAscending(vs) == \A a, b \in DOMAIN vs : a < b => vs[a] <= vs[b]

IsPermutation(a, b) ==
    /\ Len(a) = Len(b)
    /\ \A v \in Range(a) \cup Range(b) : Occurrences(a, v) = Occurrences(b, v)

\* C12: selection_sort returns an ascending sequence that is a permutation of
\* its argument and leaves the caller's list as it was; after i iterations of
\* the outer loop the first i elements of the working copy are the i smallest
\* elements, in ascending order; the step-wise run and the function agree.
C12_SelectionSort ==
    script = "selection_sort" /\ pc \in {"sort", "returned"}
        => /\ loc.values = call.values
           /\ IsPermutation(loc.arr, call.values)
           /\ loc.i \in 0..Len(loc.arr)
           /\ IsAscending(SubSeq(loc.arr, 1, loc.i))
           /\ \A a \in 1..loc.i : \A b \in (loc.i + 1)..Len(loc.arr) :
                 loc.arr[a] <= loc.arr[b]
           /\ \A k \in 1..loc.i : loc.arr[k] = KthSmallest(call.values, k)
           /\ pc = "returned"
                 => /\ ret = Returned(loc.arr)
                    /\ loc.i = Len(call.values)
                    /\ IsAscending(ret.val)
                    /\ IsPermutation(ret.val, call.values)
                    /\ ret.val = selection_sort(call.values)

\* selection_sort([2, 0, 2, -1]) has returned [-1, 0, 2, 2]
C12_Witness ==
    /\ script = "selection_sort" /\ pc = "returned"
    /\ call.values = <<2, 0, 2, -1>>
    /\ loc.values = <<2, 0, 2, -1>>
    /\ ret = Returned(<<-1, 0, 2, 2>>)

\* two outer iterations done on [1, 2, 0, -1]: the working copy is [-1, 0, 2, 1]
C12_WitnessMidway ==
    /\ script = "selection_sort" /\ pc = "sort"
    /\ call.values = <<1, 2, 0, -1>>
    /\ loc.i = 2
    /\ loc.arr = <<-1, 0, 2, 1>>

\* the run was given a path and open() on it failed
OpenFailed ==
    /\ Len(argv) = 2
    /\ file.status \in {"missing", "unreadable"}
    /\ pc \notin {"main", "open"}

\* C13: in every script, when the input file is missing or cannot be read, the
\* parser returns with exactly one entry in the error list and no values; no
\* exception leaves it, and main goes on with the empty dataset.
C13_ParserReturns ==
    OpenFailed => /\ pc # "raised"
                  /\ Len(errors) = 1
                  /\ errors[1].line = 0
                  /\ values = <<>>

\* what does hold: a missing file in every script, and an unreadable one in the
\* scripts that have `except OSError`
C13_WhereCaught ==
    (OpenFailed /\ (file.status = "missing" \/ script \in CatchesOSError))
        => /\ pc # "raised"
           /\ errors \in { <<Error("File not found", 0, argv[2])>>,
                            <<Error("Could not read file", 0, argv[2])>> }
           /\ values = <<>>

\* and where it does not: the run ends in the exception, nothing logged or printed
C13_WhereUncaught ==
    (OpenFailed /\ file.status = "unreadable" /\ script \notin CatchesOSError)
        => /\ pc = "raised"
           /\ rc = 1
           /\ errors = <<>>
           /\ console = <<>>
           /\ results \in {NoFile, OldFile}

(***************************************************************************)
(* The two scripts of a tool, run one after the other on the same argument *)
(* list, the same input file and the same state of the results file.       *)
(***************************************************************************)
FirstVariants == {"computeStatistics", "convertNumbers", "wordCount"}

\* the other script of the same source directory
Partner(s) ==
    CASE s = "computeStatistics" -> "compute_statistics"
      [] s = "convertNumbers" -> "convert_numbers"
      [] s = "wordCount" -> "word_count"

\* RESULTS_FILENAME of each script
RESULTS_FILENAME(s) ==
    CASE s \in {"computeStatistics", "compute_statistics", "convert_numbers"}
            -> "StatisticsResults.txt"
      [] s = "convertNumbers" -> "ConvertionResults.txt"
      [] s \in {"wordCount", "word_count"} -> "WordCountResults.txt"

\* what a finished run leaves to see: the exit status, the lines printed (the
\* text of the usage line left out), an uncaught exception, the results file,
\* and the name under which the run wrote it, if it wrote one
Observation ==
    [rc |-> rc,
     raised |-> (pc = "raised"),
     console |-> [i \in DOMAIN console |->
                     IF console[i].tag = "Usage" THEN Line("Usage", "") ELSE console[i]],
     file_name |-> IF results = call.results0 THEN "" ELSE RESULTS_FILENAME(script),
     results |-> results]

InitVariants ==
    /\ script \in FirstVariants
    /\ argv \in ArgLists
    /\ file \in Files(script)
    /\ results \in {NoFile, OldFile}
    /\ pc = "main"
    /\ line_no = 0
    /\ values = <<>>
    /\ errors = <<>>
    /\ console = <<>>
    /\ rc = -1
    /\ called = <<>>
    /\ loc = NoLocals
    /\ call = [results0 |-> results]
    /\ ret = NoRet

\* the first script has ended: what it left is recorded, the results file is
\* put back as it was, and the partner is started on the same argv and file
RunVariant ==
    /\ script \in FirstVariants
    /\ pc \in {"exit", "raised"}
    /\ ret' = [exc |-> "observed", val |-> Observation]
    /\ script' = Partner(script)
    /\ results' = call.results0
    /\ pc' = "main"
    /\ line_no' = 0
    /\ values' = <<>>
    /\ errors' = <<>>
    /\ console' = <<>>
    /\ rc' = -1
    /\ called' = <<>>
    /\ loc' = NoLocals
    /\ UNCHANGED <<argv, file, call>>

NextVariants == Next \/ RunVariant

SpecVariants == InitVariants /\ [][NextVariants]_vars

\* both scripts of a tool have run to their end
BothEnded == ret.exc = "observed" /\ pc \in {"exit", "raised"}

\* C14: the two scripts of each tool are observationally equivalent: on every
\* argument list and every input file they end with the same exit code, the
\* same console lines and the same results file (name, content, written or
\* not), the elapsed time and the text of the usage line aside.
C14_VariantsAgree == BothEnded => Observation = ret.val

\* what does hold: wordCount.py and word_count.py agree on every run
C14_WordCountAgree ==
    (BothEnded /\ script = "word_count") => Observation = ret.val

\* computeStatistics.py and compute_statistics.py agree on the usage error and
\* on every file that has a number in it
C14_StatisticsAgreeOnData ==
    (BothEnded /\ script = "compute_statistics"
        /\ (Len(argv) # 2 \/ values # <<>>))
        => Observation = ret.val

\* convertNumbers.py and convert_numbers.py agree on the usage error and on
\* nothing else: the partner prints no conversion table and writes, if at all,
\* a file of another name
C14_ConvertDisagree ==
    (BothEnded /\ script = "convert_numbers")
        => /\ Len(argv) # 2 => Observation = ret.val
           /\ Len(argv) = 2 => /\ Observation.console # ret.val.console
                               /\ Observation.file_name # ret.val.file_name
                               /\ ret.val.file_name = "ConvertionResults.txt"
                               /\ Observation.file_name \in {"", "StatisticsResults.txt"}
====
